---- MODULE Spec2Model ----
(***************************************************************************)
(* Model of examples/tpu_matrix_mul.rs: the Polynomial type with its       *)
(* schoolbook multiplication, its Toeplitz matrix builder, the             *)
(* multiplication through a single-precision matrix product, and the       *)
(* approximate comparison.                                                 *)
(*                                                                         *)
(* A polynomial is the sequence of its u64 coefficients, lowest degree     *)
(* first.  Rust indices start at 0 and TLA+ sequences at 1: the code's     *)
(* coefficients[i] is poly[i + 1] here.                                    *)
(*                                                                         *)
(* A call returns a record [kind, val]: kind "ok" with the returned value, *)
(* "panic" for a Rust panic (val <<>>), "err" for the Err of a             *)
(* CandleResult (val <<>>).                                                *)
(***************************************************************************)
EXTENDS Integers, Sequences, FiniteSets, TLC

VARIABLES poly_a, poly_b, pc, arg, vec_b, ret

vars == <<poly_a, poly_b, pc, arg, vec_b, ret>>

(***************************************************************************)
(* Bounds of the model.                                                    *)
(***************************************************************************)
\* longest enumerated polynomial
MaxLen == 2

\* largest product of two coefficients of an enumerated pair: sums of
\* products have to stay inside the model checker's 32-bit integers
MaxProduct == 67108870

\* coefficient values: small ones, one whose square just exceeds 2^24, and
\* 2^24 + 1, the smallest integer a single-precision float cannot hold
Coeffs == {0, 1, 2, 4097, 16777217}

\* epsilons of approx_eq, in tenths (1 is the 0.1 of main)
Epsilons == {-10, 0, 1, 10}

Polys == UNION {[1..n -> Coeffs] : n \in 0..MaxLen}

SafePair(a, b) ==
    \A i \in 1..Len(a) : \A j \in 1..Len(b) :
        IF a[i] = 0 THEN TRUE ELSE b[j] <= MaxProduct \div a[i]

\* the polynomials of main
MainPolyA == <<1, 2, 3, 4>>
MainPolyB == <<5, 6, 7>>

(***************************************************************************)
(* Numeric conversions.                                                    *)
(***************************************************************************)
\* significand widths of f32 and f64
F32Bits == 24
F64Bits == 53

RECURSIVE Pow2(_)
Pow2(k) == IF k = 0 THEN 1 ELSE 2 * Pow2(k - 1)

\* the number of binary digits of the natural x
RECURSIVE BitLen(_)
BitLen(x) == IF x = 0 THEN 0 ELSE 1 + BitLen(x \div 2)

\* the float with a significand of `bits` bits nearest to the natural x,
\* ties to the even significand
RoundTo(bits, x) ==
    IF BitLen(x) <= bits THEN x
    ELSE LET ulp == Pow2(BitLen(x) - bits)
             q   == x \div ulp
             r   == x % ulp
         IN  IF 2 * r < ulp THEN q * ulp
             ELSE IF 2 * r > ulp THEN (q + 1) * ulp
             ELSE IF q % 2 = 0 THEN q * ulp
             ELSE (q + 1) * ulp

\* `x as f32`, and the rounding of every f32 operation
F32(x) == RoundTo(F32Bits, x)

\* `x as f64`
F64(x) == RoundTo(F64Bits, x)

\* `x as u64` of an f32: truncation towards zero, saturating; the floats of
\* this model are integer-valued
AsU64(x) == IF x < 0 THEN 0 ELSE x

Ok(v) == [kind |-> "ok", val |-> v]
Panic == [kind |-> "panic", val |-> <<>>]
Err == [kind |-> "err", val |-> <<>>]

(***************************************************************************)
(* Polynomial::multiply_naive                                              *)
(***************************************************************************)
\* mutant: the product is stored, not accumulated
RECURSIVE NaiveInnerAssign(_, _, _, _, _)
NaiveInnerAssign(a, b, i, j, result) ==
    IF j >= Len(b) THEN Ok(result)
    ELSE IF i + j >= Len(result) THEN Panic
    ELSE NaiveInnerAssign(a, b, i, j + 1,
            [result EXCEPT ![i + j + 1] = a[i + 1] * b[j + 1]])

\* the inner loop over j (0-based), for the row i of the outer loop
RECURSIVE NaiveInner(_, _, _, _, _)
NaiveInner(a, b, i, j, result) ==
    IF j >= Len(b) THEN Ok(result)
    ELSE IF i + j >= Len(result) THEN Panic
    ELSE NaiveInner(a, b, i, j + 1,
            [result EXCEPT ![i + j + 1] = @ + a[i + 1] * b[j + 1]])

RECURSIVE NaiveOuter(_, _, _, _)
NaiveOuter(a, b, i, result) ==
    IF i >= Len(a) THEN Ok(result)
    ELSE LET r == NaiveInner(a, b, i, 0, result)
         IN  IF r.kind = "ok" THEN NaiveOuter(a, b, i + 1, r.val) ELSE r

multiply_naive(self, other) ==
    LET n == Len(self)
        m == Len(other)
    IN  IF n + m - 1 < 0 THEN Panic
        ELSE NaiveOuter(self, other, 0, [k \in 1..(n + m - 1) |-> 0])

(***************************************************************************)
(* Polynomial::to_multiplication_matrix                                    *)
(***************************************************************************)
\* mutant: the diagonal is left at zero
ToeplitzEntryStrict(self, i, j) ==
    IF i > j /\ (i - j) < Len(self) THEN self[i - j + 1] ELSE 0

\* mutant: the coefficient is indexed by the column
ToeplitzEntryByColumn(self, i, j) ==
    IF i >= j /\ (i - j) < Len(self) THEN self[j + 1] ELSE 0

\* the body of the two loops: matrix[i][j] for 0-based i, j
ToeplitzEntry(self, i, j) ==
    IF i >= j /\ (i - j) < Len(self) THEN self[i - j + 1] ELSE 0

\* mutant: at least as many rows as coefficients
to_multiplication_matrix_min_rows(self, result_degree) ==
    [i \in 1..(IF result_degree < Len(self) THEN Len(self) ELSE result_degree) |->
        [j \in 1..Len(self) |-> ToeplitzEntry(self, i - 1, j - 1)]]

to_multiplication_matrix(self, result_degree) ==
    [i \in 1..result_degree |->
        [j \in 1..Len(self) |-> ToeplitzEntry(self, i - 1, j - 1)]]

(***************************************************************************)
(* Polynomial::multiply_matrix_with_device                                 *)
(***************************************************************************)
\* mutant: one coefficient too many
ResultDegreePlusOne(n, m) == n + m

ResultDegree(n, m) == n + m - 1

\* mutant: the vector is as long as the longer polynomial
VecBLonger(self, other) ==
    [i \in 1..(IF Len(other) > Len(self) THEN Len(other) ELSE Len(self)) |->
        IF i <= Len(other) THEN F32(other[i]) ELSE 0]

\* the vector of length n handed to the backend
VecB(self, other) ==
    [i \in 1..Len(self) |-> IF i <= Len(other) THEN F32(other[i]) ELSE 0]

\* one cell of Tensor::matmul on f32: the products accumulated from the
\* first column on, every operation rounded
RECURSIVE DotF32(_, _, _, _)
DotF32(row, vec, k, acc) ==
    IF k > Len(row) \/ k > Len(vec) THEN acc
    ELSE DotF32(row, vec, k + 1, F32(acc + F32(row[k] * vec[k])))

\* Tensor::matmul of an (r x n) matrix and an (n x 1) vector
matmul(matrix_tensor, b_tensor) ==
    [i \in 1..Len(matrix_tensor) |-> DotF32(matrix_tensor[i], b_tensor, 1, 0)]

\* what the backend may do with the shapes: a tensor without elements may be
\* refused or multiplied, depending on the library
BackendOutcomes(result_degree, n) ==
    IF result_degree = 0 \/ n = 0 THEN {TRUE, FALSE} ELSE {TRUE}

\* backend_ok: whether matmul returns Ok
multiply_matrix_with_device(self, other, backend_ok) ==
    LET n             == Len(self)
        m             == Len(other)
        result_degree == ResultDegree(n, m)
    IN  IF result_degree < 0 THEN Panic
        ELSE LET matrix        == to_multiplication_matrix(self, result_degree)
                 matrix_tensor == [i \in 1..Len(matrix) |->
                                     [j \in 1..n |-> F32(matrix[i][j])]]
                 b_tensor      == VecB(self, other)
                 result_vec    == matmul(matrix_tensor, b_tensor)
             IN  IF ~backend_ok THEN Err
                 ELSE Ok([i \in 1..Len(result_vec) |-> AsU64(result_vec[i])])

(***************************************************************************)
(* Polynomial::approx_eq                                                   *)
(***************************************************************************)
\* coefficients.get(i).copied().unwrap_or(0), i 0-based
GetOr0(p, i) == IF i < Len(p) THEN p[i + 1] ELSE 0

Abs(x) == IF x < 0 THEN -x ELSE x

\* mutant: a difference equal to epsilon is rejected
RECURSIVE ApproxLoopStrict(_, _, _, _, _)
ApproxLoopStrict(self, other, epsilon, i, max_len) ==
    IF i >= max_len THEN TRUE
    ELSE IF 10 * Abs(F64(GetOr0(self, i)) - F64(GetOr0(other, i))) >= epsilon
         THEN FALSE
    ELSE ApproxLoopStrict(self, other, epsilon, i + 1, max_len)

\* the loop, from position i on; epsilon is in tenths
RECURSIVE ApproxLoop(_, _, _, _, _)
ApproxLoop(self, other, epsilon, i, max_len) ==
    IF i >= max_len THEN TRUE
    ELSE IF 10 * Abs(F64(GetOr0(self, i)) - F64(GetOr0(other, i))) > epsilon
         THEN FALSE
    ELSE ApproxLoop(self, other, epsilon, i + 1, max_len)

approx_eq(self, other, epsilon) ==
    LET max_len == IF Len(self) > Len(other) THEN Len(self) ELSE Len(other)
    IN  ApproxLoop(self, other, epsilon, 0, max_len)

(***************************************************************************)
(* State machine: one call of one method on the two polynomials.           *)
(***************************************************************************)
Init ==
    /\ \/ /\ poly_a \in Polys
          /\ poly_b \in Polys
          /\ SafePair(poly_a, poly_b)
       \/ /\ poly_a = MainPolyA
          /\ poly_b = MainPolyB
    /\ pc = "start"
    /\ arg = 0
    /\ vec_b = <<>>
    /\ ret = Ok(<<>>)

CallMultiplyNaive ==
    /\ pc = "start"
    /\ pc' = "naive"
    /\ ret' = multiply_naive(poly_a, poly_b)
    /\ UNCHANGED <<poly_a, poly_b, arg, vec_b>>

CallToMultiplicationMatrix ==
    /\ pc = "start"
    /\ \E result_degree \in 0..(Len(poly_a) + MaxLen) :
          /\ arg' = result_degree
          /\ ret' = Ok(to_multiplication_matrix(poly_a, result_degree))
    /\ pc' = "toeplitz"
    /\ UNCHANGED <<poly_a, poly_b, vec_b>>

CallMultiplyMatrix ==
    /\ pc = "start"
    /\ pc' = "matrix"
    /\ \E backend_ok \in BackendOutcomes(ResultDegree(Len(poly_a), Len(poly_b)),
                                         Len(poly_a)) :
          ret' = multiply_matrix_with_device(poly_a, poly_b, backend_ok)
    /\ vec_b' = IF ResultDegree(Len(poly_a), Len(poly_b)) < 0
                THEN <<>> ELSE VecB(poly_a, poly_b)
    /\ UNCHANGED <<poly_a, poly_b, arg>>

CallApproxEq ==
    /\ pc = "start"
    /\ pc' = "approx"
    /\ \E epsilon \in Epsilons :
          /\ arg' = epsilon
          /\ ret' = Ok(approx_eq(poly_a, poly_b, epsilon))
    /\ UNCHANGED <<poly_a, poly_b, vec_b>>

Next ==
    \/ CallMultiplyNaive
    \/ CallToMultiplicationMatrix
    \/ CallMultiplyMatrix
    \/ CallApproxEq

Spec == Init /\ [][Next]_vars

(***************************************************************************)
(* The properties.                                                         *)
(***************************************************************************)
\* the largest integer up to which every integer is an f32
ExactLimit == Pow2(F32Bits)

\* coefficient k (0-based) of the convolution: the sum of a[i] * b[k - i]
\* over 0 <= i < n with 0 <= k - i < m
RECURSIVE ConvSum(_, _, _, _)
ConvSum(a, b, k, i) ==
    IF i >= Len(a) THEN 0
    ELSE (IF k - i >= 0 /\ k - i < Len(b) THEN a[i + 1] * b[k - i + 1] ELSE 0)
         + ConvSum(a, b, k, i + 1)

Convolution(a, b) == [k \in 1..(Len(a) + Len(b) - 1) |-> ConvSum(a, b, k - 1, 0)]

\* every true convolution value is an integer the backend holds exactly
InExactRange(a, b) ==
    \A k \in 1..(Len(a) + Len(b) - 1) : ConvSum(a, b, k - 1, 0) <= ExactLimit

\* C1: for non-empty A and B whose convolution values stay in the exact
\* range, the matrix-based multiply returns the coefficients of
\* multiply_naive(A, B); A = [1,2,3,4], B = [5,6,7] gives [5,16,34,52,45,28].
C1_MatrixEqualsNaive ==
    /\ (pc = "matrix" /\ Len(poly_a) >= 1 /\ Len(poly_b) >= 1
            /\ InExactRange(poly_a, poly_b))
          => ret = multiply_naive(poly_a, poly_b)
    /\ (pc = "matrix" /\ poly_a = MainPolyA /\ poly_b = MainPolyB)
          => ret = Ok(<<5, 16, 34, 52, 45, 28>>)

\* C2: the polynomial the matrix-based multiply returns has exactly
\* n + m - 1 coefficients, zero coefficients included.
C2_ResultLength ==
    (pc = "matrix" /\ ret.kind = "ok")
        => Len(ret.val) = Len(poly_a) + Len(poly_b) - 1

C2_Witness ==
    /\ pc = "matrix"
    /\ ret.kind = "ok"
    /\ Len(poly_a) = 2
    /\ Len(poly_b) = 1
    /\ Len(ret.val) = 2
    /\ ret.val[1] # 0
    /\ ret.val[2] = 0

\* C3: for A and B of equal length (a shorter operand padded with zero
\* coefficients to the length of the longer one is such a pair) and
\* convolution values in the exact range, multiply(A, B) = multiply(B, A).
C3_Commutative ==
    (pc = "matrix" /\ Len(poly_a) = Len(poly_b) /\ InExactRange(poly_a, poly_b))
        => ret = multiply_matrix_with_device(poly_b, poly_a, TRUE)

C3_Witness ==
    /\ pc = "matrix"
    /\ Len(poly_a) = 2
    /\ Len(poly_b) = 2
    /\ poly_a # poly_b
    /\ poly_a[2] = 0
    /\ poly_b[2] # 0
    /\ InExactRange(poly_a, poly_b)
    /\ ret.kind = "ok"
    /\ ret.val[2] # 0

\* the matrix m has `rows` rows and as many columns as poly has coefficients,
\* and its entry (i, j) is poly[i - j] when 0 <= i - j < len(poly), else 0
IsToeplitzOf(m, poly, rows) ==
    /\ Len(m) = rows
    /\ \A i \in 1..rows :
          /\ Len(m[i]) = Len(poly)
          /\ \A j \in 1..Len(poly) :
                m[i][j] = IF i - j >= 0 /\ i - j < Len(poly)
                          THEN poly[i - j + 1] ELSE 0

\* C4: called with result_length >= len(poly), the Toeplitz builder returns
\* the matrix of result_length rows and len(poly) columns with entry (i, j)
\* equal to poly[i - j] when 0 <= i - j < len(poly) and 0 otherwise, and
\* leaves poly unchanged.
C4_Toeplitz ==
    [][(pc = "start" /\ pc' = "toeplitz" /\ arg' >= Len(poly_a))
          => /\ poly_a' = poly_a
             /\ ret'.kind = "ok"
             /\ IsToeplitzOf(ret'.val, poly_a, arg')]_vars

C4_Witness ==
    /\ pc = "toeplitz"
    /\ Len(poly_a) = 2
    /\ poly_a[1] # 0
    /\ poly_a[2] # 0
    /\ poly_a[1] # poly_a[2]
    /\ arg = 3
    /\ ret.val = <<<<poly_a[1], 0>>, <<poly_a[2], poly_a[1]>>, <<0, poly_a[2]>>>>

C6_PrecisionOverflow ==
    pc = "matrix"
        => /\ (\E k \in 1..(Len(poly_a) + Len(poly_b) - 1) :
                   ConvSum(poly_a, poly_b, k - 1, 0) > ExactLimit)
                 => ret.kind = "PrecisionOverflow"
           /\ (ret.kind = "ok" /\ Len(poly_a) >= Len(poly_b))
                 => ret.val = Convolution(poly_a, poly_b)

\* C7: for every non-empty A, multiply(A, [1]) and multiply([1], A) both
\* return exactly the coefficients of A (stated here for the A whose
\* coefficients the backend holds exactly).
C7_Identity ==
    /\ (pc = "matrix" /\ Len(poly_a) >= 1 /\ poly_b = <<1>>
            /\ InExactRange(poly_a, poly_b))
          => ret = Ok(poly_a)
    /\ (pc = "matrix" /\ Len(poly_b) >= 1 /\ poly_a = <<1>>
            /\ InExactRange(poly_a, poly_b))
          => ret = Ok(poly_b)

\* every position of the longer length, the shorter polynomial continued
\* with zeros, differs by at most epsilon (in tenths)
AllWithin(a, b, epsilon) ==
    \A i \in 1..(IF Len(a) > Len(b) THEN Len(a) ELSE Len(b)) :
        10 * Abs((IF i <= Len(a) THEN a[i] ELSE 0)
                 - (IF i <= Len(b) THEN b[i] ELSE 0)) <= epsilon

\* a and b differ only by zero coefficients at the end
SameUpToTrailingZeros(a, b) ==
    \A i \in 1..(IF Len(a) > Len(b) THEN Len(a) ELSE Len(b)) :
        (IF i <= Len(a) THEN a[i] ELSE 0) = (IF i <= Len(b) THEN b[i] ELSE 0)

C9_Naive ==
    (pc = "naive" /\ Len(poly_a) >= 1 /\ Len(poly_b) >= 1)
        => /\ ret.kind = "ok"
           /\ Len(ret.val) = Len(poly_a) + Len(poly_b) - 1
           /\ \A k \in 1..Len(ret.val) :
                 ret.val[k] = ConvSum(poly_a, poly_b, k - 1, 0)

C9_Witness ==
    /\ pc = "naive"
    /\ poly_a = MainPolyA
    /\ poly_b = MainPolyB
    /\ ret = Ok(<<5, 16, 34, 52, 45, 28>>)

\* two polynomials of the same length with the same first n coefficients
AgreeOnFirst(b1, b2, n) ==
    /\ Len(b1) = Len(b2)
    /\ \A i \in 1..Len(b1) : i <= n => b1[i] = b2[i]

\* the coefficients of b beyond the first len(a) do not reach the result
NoInfluenceBeyond ==
    \A b2 \in Polys :
        (AgreeOnFirst(poly_b, b2, Len(poly_a)) /\ SafePair(poly_a, b2)
            /\ ret.kind = "ok")
            => ret = multiply_matrix_with_device(poly_a, b2, TRUE)

====
